---------------------------- MODULE Spec2Model ----------------------------
(***************************************************************************)
(* The retrying remote-call layer of trendlens-ai                          *)
(* (src/services/geminiService.ts, src/utils/errors.ts).                   *)
(*                                                                         *)
(* Strings are sequences of one-character strings, so that toLowerCase     *)
(* and String.prototype.includes are computed character by character.      *)
(***************************************************************************)
EXTENDS Integers, Sequences, FiniteSets, TLC

(***************************************************************************)
(* Strings                                                                 *)
(***************************************************************************)
UpperChars ==
  << "A", "B", "C", "D", "E", "F", "G", "H", "I", "J", "K", "L", "M", "N",
     "O", "P", "Q", "R", "S", "T", "U", "V", "W", "X", "Y", "Z" >>

LowerChars ==
  << "a", "b", "c", "d", "e", "f", "g", "h", "i", "j", "k", "l", "m", "n",
     "o", "p", "q", "r", "s", "t", "u", "v", "w", "x", "y", "z" >>

LowerChar(ch) ==
  IF \E i \in 1..Len(UpperChars) : UpperChars[i] = ch
    THEN LowerChars[CHOOSE i \in 1..Len(UpperChars) : UpperChars[i] = ch]
    ELSE ch

\* String.prototype.toLowerCase
toLowerCase(s) == [i \in 1..Len(s) |-> LowerChar(s[i])]

\* String.prototype.includes: sub occurs in s as a contiguous substring
includes(s, sub) ==
  \E i \in 0..(Len(s) - Len(sub)) : SubSeq(s, i + 1, i + Len(sub)) = sub

(***************************************************************************)
(* Failure messages the remote service (or the thunk) can produce.         *)
(***************************************************************************)
\* "429 Too Many Requests"
Msg429 ==
  << "4", "2", "9", " ", "T", "o", "o", " ", "M", "a", "n", "y", " ", "R",
     "e", "q", "u", "e", "s", "t", "s" >>

\* "Quota exceeded"
MsgQuota ==
  << "Q", "u", "o", "t", "a", " ", "e", "x", "c", "e", "e", "d", "e", "d" >>

\* "RESOURCE_EXHAUSTED"
MsgResourceExhausted ==
  << "R", "E", "S", "O", "U", "R", "C", "E", "_", "E", "X", "H", "A", "U",
     "S", "T", "E", "D" >>

\* "500 Internal"
Msg500 ==
  << "5", "0", "0", " ", "I", "n", "t", "e", "r", "n", "a", "l" >>

\* "503 Service Unavailable"
Msg503 ==
  << "5", "0", "3", " ", "S", "e", "r", "v", "i", "c", "e", " ", "U", "n",
     "a", "v", "a", "i", "l", "a", "b", "l", "e" >>

\* "Service Unavailable"
MsgUnavailable ==
  << "S", "e", "r", "v", "i", "c", "e", " ", "U", "n", "a", "v", "a", "i",
     "l", "a", "b", "l", "e" >>

\* "400 Bad Request: invalid image"
Msg400 ==
  << "4", "0", "0", " ", "B", "a", "d", " ", "R", "e", "q", "u", "e", "s",
     "t", ":", " ", "i", "n", "v", "a", "l", "i", "d", " ", "i", "m", "a",
     "g", "e" >>

\* "Invalid Argument"
MsgInvalidArgument ==
  << "I", "n", "v", "a", "l", "i", "d", " ", "A", "r", "g", "u", "m", "e",
     "n", "t" >>

\* "429 INVALID ARGUMENT"
Msg429Invalid ==
  << "4", "2", "9", " ", "I", "N", "V", "A", "L", "I", "D", " ", "A", "R",
     "G", "U", "M", "E", "N", "T" >>

\* "503 code 400"
Msg503And400 ==
  << "5", "0", "3", " ", "c", "o", "d", "e", " ", "4", "0", "0" >>

\* "quota 503"
MsgQuota503 ==
  << "q", "u", "o", "t", "a", " ", "5", "0", "3" >>

\* "timeout 5000ms"
MsgTimeout5000 ==
  << "t", "i", "m", "e", "o", "u", "t", " ", "5", "0", "0", "0", "m", "s" >>

\* "Network down"
MsgNetwork ==
  << "N", "e", "t", "w", "o", "r", "k", " ", "d", "o", "w", "n" >>

\* "invalid: argument"
MsgBadArgument ==
  << "i", "n", "v", "a", "l", "i", "d", ":", " ", "a", "r", "g", "u", "m",
     "e", "n", "t" >>

\* "Could not generate styled image. The API did not return an image."
NoImageMessage ==
  << "C", "o", "u", "l", "d", " ", "n", "o", "t", " ", "g", "e", "n", "e",
     "r", "a", "t", "e", " ", "s", "t", "y", "l", "e", "d", " ", "i", "m",
     "a", "g", "e", ".", " ", "T", "h", "e", " ", "A", "P", "I", " ", "d",
     "i", "d", " ", "n", "o", "t", " ", "r", "e", "t", "u", "r", "n", " ",
     "a", "n", " ", "i", "m", "a", "g", "e", "." >>

\* "Failed to analyze trend. The API returned an invalid format."
BadFormatMessage ==
  << "F", "a", "i", "l", "e", "d", " ", "t", "o", " ", "a", "n", "a", "l",
     "y", "z", "e", " ", "t", "r", "e", "n", "d", ".", " ", "T", "h", "e",
     " ", "A", "P", "I", " ", "r", "e", "t", "u", "r", "n", "e", "d", " ",
     "a", "n", " ", "i", "n", "v", "a", "l", "i", "d", " ", "f", "o", "r",
     "m", "a", "t", "." >>

\* "There was an issue with one of the uploaded images. Please try using a different, clear image in a common format (PNG, JPG, WEBP)."
InvalidInputMessage ==
  << "T", "h", "e", "r", "e", " ", "w", "a", "s", " ", "a", "n", " ", "i",
     "s", "s", "u", "e", " ", "w", "i", "t", "h", " ", "o", "n", "e", " ",
     "o", "f", " ", "t", "h", "e", " ", "u", "p", "l", "o", "a", "d", "e",
     "d", " ", "i", "m", "a", "g", "e", "s", ".", " ", "P", "l", "e", "a",
     "s", "e", " ", "t", "r", "y", " ", "u", "s", "i", "n", "g", " ", "a",
     " ", "d", "i", "f", "f", "e", "r", "e", "n", "t", ",", " ", "c", "l",
     "e", "a", "r", " ", "i", "m", "a", "g", "e", " ", "i", "n", " ", "a",
     " ", "c", "o", "m", "m", "o", "n", " ", "f", "o", "r", "m", "a", "t",
     " ", "(", "P", "N", "G", ",", " ", "J", "P", "G", ",", " ", "W", "E",
     "B", "P", ")", "." >>

\* "API request limit reached. This can happen on the free tier. Please wait a moment and try again."
RateLimitDefaultMessage ==
  << "A", "P", "I", " ", "r", "e", "q", "u", "e", "s", "t", " ", "l", "i",
     "m", "i", "t", " ", "r", "e", "a", "c", "h", "e", "d", ".", " ", "T",
     "h", "i", "s", " ", "c", "a", "n", " ", "h", "a", "p", "p", "e", "n",
     " ", "o", "n", " ", "t", "h", "e", " ", "f", "r", "e", "e", " ", "t",
     "i", "e", "r", ".", " ", "P", "l", "e", "a", "s", "e", " ", "w", "a",
     "i", "t", " ", "a", " ", "m", "o", "m", "e", "n", "t", " ", "a", "n",
     "d", " ", "t", "r", "y", " ", "a", "g", "a", "i", "n", "." >>

\* "The AI service is currently unavailable. Please try again later."
ServerDefaultMessage ==
  << "T", "h", "e", " ", "A", "I", " ", "s", "e", "r", "v", "i", "c", "e",
     " ", "i", "s", " ", "c", "u", "r", "r", "e", "n", "t", "l", "y", " ",
     "u", "n", "a", "v", "a", "i", "l", "a", "b", "l", "e", ".", " ", "P",
     "l", "e", "a", "s", "e", " ", "t", "r", "y", " ", "a", "g", "a", "i",
     "n", " ", "l", "a", "t", "e", "r", "." >>

\* "An unknown error occurred after multiple retries."
UnknownErrorMessage ==
  << "A", "n", " ", "u", "n", "k", "n", "o", "w", "n", " ", "e", "r", "r",
     "o", "r", " ", "o", "c", "c", "u", "r", "r", "e", "d", " ", "a", "f",
     "t", "e", "r", " ", "m", "u", "l", "t", "i", "p", "l", "e", " ", "r",
     "e", "t", "r", "i", "e", "s", "." >>

\* "429"
Marker429 ==
  << "4", "2", "9" >>

\* "quota"
MarkerQuota ==
  << "q", "u", "o", "t", "a" >>

\* "resource_exhausted"
MarkerResourceExhausted ==
  << "r", "e", "s", "o", "u", "r", "c", "e", "_", "e", "x", "h", "a", "u",
     "s", "t", "e", "d" >>

\* "500"
Marker500 ==
  << "5", "0", "0" >>

\* "503"
Marker503 ==
  << "5", "0", "3" >>

\* "service unavailable"
MarkerServiceUnavailable ==
  << "s", "e", "r", "v", "i", "c", "e", " ", "u", "n", "a", "v", "a", "i",
     "l", "a", "b", "l", "e" >>

\* "400"
Marker400 ==
  << "4", "0", "0" >>

\* "invalid argument"
MarkerInvalidArgument ==
  << "i", "n", "v", "a", "l", "i", "d", " ", "a", "r", "g", "u", "m", "e",
     "n", "t" >>

(***************************************************************************)
(* Payload strings                                                         *)
(***************************************************************************)
\* 'image/png'
MimePng ==
  << "i", "m", "a", "g", "e", "/", "p", "n", "g" >>

\* 'abc123'
DataAbc ==
  << "a", "b", "c", "1", "2", "3" >>

\* 'image/jpeg'
MimeJpeg ==
  << "i", "m", "a", "g", "e", "/", "j", "p", "e", "g" >>

\* 'xyz'
DataXyz ==
  << "x", "y", "z" >>

\* '{"mimeType":"'
JsonOpenMime ==
  << "{", "\"", "m", "i", "m", "e", "T", "y", "p", "e", "\"", ":", "\"" >>

\* '","data":"'
JsonMidData ==
  << "\"", ",", "\"", "d", "a", "t", "a", "\"", ":", "\"" >>

\* '"}'
JsonClose ==
  << "\"", "}" >>

\* '{"score": 72, "analysis": "Bold streetwear mix."}'
TextValid ==
  << "{", "\"", "s", "c", "o", "r", "e", "\"", ":", " ", "7", "2", ",",
     " ", "\"", "a", "n", "a", "l", "y", "s", "i", "s", "\"", ":", " ",
     "\"", "B", "o", "l", "d", " ", "s", "t", "r", "e", "e", "t", "w",
     "e", "a", "r", " ", "m", "i", "x", ".", "\"", "}" >>

\* ' {"score": 72, "analysis": "Bold streetwear mix."}\n'
TextPadded ==
  << " ", "{", "\"", "s", "c", "o", "r", "e", "\"", ":", " ", "7", "2",
     ",", " ", "\"", "a", "n", "a", "l", "y", "s", "i", "s", "\"", ":",
     " ", "\"", "B", "o", "l", "d", " ", "s", "t", "r", "e", "e", "t",
     "w", "e", "a", "r", " ", "m", "i", "x", ".", "\"", "}", "\n" >>

\* 'oops'
TextOops ==
  << "o", "o", "p", "s" >>

\* '{"score": 150, "analysis": "Bold streetwear mix."}'
TextScore150 ==
  << "{", "\"", "s", "c", "o", "r", "e", "\"", ":", " ", "1", "5", "0",
     ",", " ", "\"", "a", "n", "a", "l", "y", "s", "i", "s", "\"", ":",
     " ", "\"", "B", "o", "l", "d", " ", "s", "t", "r", "e", "e", "t",
     "w", "e", "a", "r", " ", "m", "i", "x", ".", "\"", "}" >>

\* '{"analysis": "Bold streetwear mix."}'
TextNoScore ==
  << "{", "\"", "a", "n", "a", "l", "y", "s", "i", "s", "\"", ":", " ",
     "\"", "B", "o", "l", "d", " ", "s", "t", "r", "e", "e", "t", "w",
     "e", "a", "r", " ", "m", "i", "x", ".", "\"", "}" >>

\* '{"score": "high", "analysis": "Bold streetwear mix."}'
TextScoreString ==
  << "{", "\"", "s", "c", "o", "r", "e", "\"", ":", " ", "\"", "h", "i",
     "g", "h", "\"", ",", " ", "\"", "a", "n", "a", "l", "y", "s", "i",
     "s", "\"", ":", " ", "\"", "B", "o", "l", "d", " ", "s", "t", "r",
     "e", "e", "t", "w", "e", "a", "r", " ", "m", "i", "x", ".", "\"",
     "}" >>

\* 'high'
ScoreHigh ==
  << "h", "i", "g", "h" >>

\* 'Bold streetwear mix.'
AnalysisBold ==
  << "B", "o", "l", "d", " ", "s", "t", "r", "e", "e", "t", "w", "e", "a",
     "r", " ", "m", "i", "x", "." >>

(***************************************************************************)
(* Values and errors                                                       *)
(***************************************************************************)
\* JavaScript values that an invocation can resolve with.  A field of an
\* object is <<key, type, number, string>>.
Undefined == [t |-> "undefined", s |-> << >>, fields |-> {}]

StringValue(s) == [t |-> "string", s |-> s, fields |-> {}]

ObjectValue(fields) == [t |-> "object", s |-> << >>, fields |-> fields]

\* An error object: its class, and its message (absent on a thrown value
\* that carries no message property).
NoError == [cls |-> "none", hasMessage |-> FALSE, message |-> << >>]

\* A failure raised by the remote SDK call.
RemoteError(m) == [cls |-> "RemoteError", hasMessage |-> TRUE, message |-> m]

RemoteErrorNoMessage ==
  [cls |-> "RemoteError", hasMessage |-> FALSE, message |-> << >>]

\* new Error(message)
Error(m) == [cls |-> "Error", hasMessage |-> TRUE, message |-> m]


\* Mutation of ApiError: built from the lower-cased errorMessage.
ApiErrorLowerCased(e) ==
  [cls |-> "ApiError", hasMessage |-> TRUE,
   message |-> IF e.hasMessage
                 THEN [i \in 1..Len(e.message) |-> LowerChar(e.message[i])]
                 ELSE << >>]

\* Mutation of ApiError: `new Error(lastError.message)`, outside the
\* hierarchy.
ApiErrorAsPlainError(e) ==
  [cls |-> "Error", hasMessage |-> TRUE,
   message |-> IF e.hasMessage THEN e.message ELSE << >>]

\* new ApiError(e.message): the message of e, or "" when e has none
ApiError(e) ==
  [cls |-> "ApiError", hasMessage |-> TRUE,
   message |-> IF e.hasMessage THEN e.message ELSE << >>]

RateLimitError ==
  [cls |-> "RateLimitError", hasMessage |-> TRUE,
   message |-> RateLimitDefaultMessage]

InvalidInputError(m) ==
  [cls |-> "InvalidInputError", hasMessage |-> TRUE, message |-> m]

ServerError ==
  [cls |-> "ServerError", hasMessage |-> TRUE,
   message |-> ServerDefaultMessage]

\* err instanceof ApiError
instanceofApiError(err) ==
  err.cls \in {"ApiError", "RateLimitError", "InvalidInputError", "ServerError"}

(***************************************************************************)
(* Classification of a failure (the catch block of callGeminiWithRetry)    *)
(***************************************************************************)

\* Mutation of MAX_RETRIES: one more iteration of the loop.
MAX_RETRIES_OneMore == 3 + 1

MAX_RETRIES == 3

\* lastError.message?.toLowerCase() || ''
errorMessage(e) == IF e.hasMessage THEN toLowerCase(e.message) ELSE << >>

isRateLimitError(em) ==
  \/ includes(em, Marker429)
  \/ includes(em, MarkerQuota)
  \/ includes(em, MarkerResourceExhausted)


\* Mutation of isServerError: the '500' test left out.
isServerErrorWithout500(em) ==
  \/ includes(em, Marker503)
  \/ includes(em, MarkerServiceUnavailable)

isServerError(em) ==
  \/ includes(em, Marker500)
  \/ includes(em, Marker503)
  \/ includes(em, MarkerServiceUnavailable)


\* Mutation of isInvalidInputError: the '400' test left out.
isInvalidInputErrorWithout400(em) == includes(em, MarkerInvalidArgument)

isInvalidInputError(em) ==
  \/ includes(em, Marker400)
  \/ includes(em, MarkerInvalidArgument)


\* Mutation of delay: the exponent is attempt instead of attempt - 1.
delayExponentAttempt(attempt) == 1000 * (2 ^ attempt)

\* 1000 * Math.pow(2, attempt - 1)
delay(attempt) == 1000 * (2 ^ (attempt - 1))


\* Mutation of CatchBranch: the retry test placed before the invalid-input
\* test.
CatchBranchRetryFirst(e, attempt) ==
  LET em == errorMessage(e) IN
    IF (isRateLimitError(em) \/ isServerError(em)) /\ attempt < MAX_RETRIES
      THEN "retry"
    ELSE IF isInvalidInputError(em) THEN "invalid"
    ELSE IF isRateLimitError(em) THEN "rateLimit"
    ELSE IF isServerError(em) THEN "server"
    ELSE "fallback"

\* Mutation of CatchBranch: every failure that is not invalid input is
\* retried while attempts are left.
CatchBranchRetryAll(e, attempt) ==
  LET em == errorMessage(e) IN
    IF isInvalidInputError(em) THEN "invalid"
    ELSE IF attempt < MAX_RETRIES THEN "retry"
    ELSE IF isRateLimitError(em) THEN "rateLimit"
    ELSE IF isServerError(em) THEN "server"
    ELSE "fallback"

\* Mutation of CatchBranch: `attempt <= MAX_RETRIES`, so the failure of the
\* last attempt is answered with one more onRetry and one more sleep.
CatchBranchRetryOnLast(e, attempt) ==
  LET em == errorMessage(e) IN
    IF isInvalidInputError(em) THEN "invalid"
    ELSE IF (isRateLimitError(em) \/ isServerError(em)) /\ attempt <= MAX_RETRIES
      THEN "retry"
    ELSE IF isRateLimitError(em) THEN "rateLimit"
    ELSE IF isServerError(em) THEN "server"
    ELSE "fallback"

\* The branch the catch block takes for the failure e of the given attempt.
CatchBranch(e, attempt) ==
  LET em == errorMessage(e) IN
    IF isInvalidInputError(em) THEN "invalid"
    ELSE IF (isRateLimitError(em) \/ isServerError(em)) /\ attempt < MAX_RETRIES
      THEN "retry"
    ELSE IF isRateLimitError(em) THEN "rateLimit"
    ELSE IF isServerError(em) THEN "server"
    ELSE "fallback"


\* Mutation of CatchThrows: the server-error throw placed before the
\* rate-limit throw.
CatchThrowsServerFirst(e, attempt) ==
  LET em == errorMessage(e) IN
    IF isInvalidInputError(em)
      THEN InvalidInputError(InvalidInputMessage)
    ELSE IF isServerError(em) THEN ServerError
    ELSE IF isRateLimitError(em) THEN RateLimitError
    ELSE ApiError(e)

\* Mutation of CatchThrows: the fallback rethrows the caught error.
CatchThrowsRethrows(e, attempt) ==
  LET b == CatchBranch(e, attempt) IN
    IF b = "invalid" THEN InvalidInputError(InvalidInputMessage)
    ELSE IF b = "rateLimit" THEN RateLimitError
    ELSE IF b = "server" THEN ServerError
    ELSE e

\* The error the catch block throws on a branch other than "retry".
CatchThrows(e, attempt) ==
  LET b == CatchBranch(e, attempt) IN
    IF b = "invalid" THEN InvalidInputError(InvalidInputMessage)
    ELSE IF b = "rateLimit" THEN RateLimitError
    ELSE IF b = "server" THEN ServerError
    ELSE ApiError(e)

(***************************************************************************)
(* Remote responses and the two service thunks                             *)
(***************************************************************************)
MaxParts == 2

ImagePart(mimeType, data) ==
  [inlineData |-> TRUE, mimeType |-> mimeType, data |-> data]

TextPart == [inlineData |-> FALSE, mimeType |-> << >>, data |-> << >>]

Parts == {ImagePart(MimePng, DataAbc), ImagePart(MimeJpeg, DataXyz), TextPart}

\* A response of the remote service: the content parts of its first
\* candidate and its text (absent when the response has no text).
Response(parts, hasText, text) ==
  [parts |-> parts, hasText |-> hasText, text |-> text]

GenerateResponses ==
  { Response(p, FALSE, << >>) :
      p \in UNION { [1..n -> Parts] : n \in 0..MaxParts } }

Texts ==
  {TextValid, TextPadded, TextOops, TextScore150, TextNoScore,
   TextScoreString}

AnalyzeResponses ==
  { Response(<< >>, TRUE, t) : t \in Texts } \cup { Response(<< >>, FALSE, << >>) }

\* Mutation of JSONstringify: the values of the two keys exchanged.
JSONstringifyExchanged(mimeType, data) ==
  JsonOpenMime \o data \o JsonMidData \o mimeType \o JsonClose

\* JSON.stringify({mimeType, data})
JSONstringify(mimeType, data) ==
  JsonOpenMime \o mimeType \o JsonMidData \o data \o JsonClose

IsSpace(ch) == ch \in {" ", "\n", "\t", "\r"}

RECURSIVE trimStart(_)
trimStart(s) ==
  IF s # << >> /\ IsSpace(Head(s)) THEN trimStart(Tail(s)) ELSE s

RECURSIVE trimEnd(_)
trimEnd(s) ==
  IF s # << >> /\ IsSpace(s[Len(s)])
    THEN trimEnd(SubSeq(s, 1, Len(s) - 1)) ELSE s

\* String.prototype.trim
trim(s) == trimEnd(trimStart(s))

\* JSON.parse on the texts of Texts: the parsed value, or a throw.
JSONparse(s) ==
  IF s = TextValid
    THEN [ok |-> TRUE,
          value |-> ObjectValue({<<"score", "number", 72, << >>>>,
                                 <<"analysis", "string", 0, AnalysisBold>>})]
  ELSE IF s = TextScore150
    THEN [ok |-> TRUE,
          value |-> ObjectValue({<<"score", "number", 150, << >>>>,
                                 <<"analysis", "string", 0, AnalysisBold>>})]
  ELSE IF s = TextNoScore
    THEN [ok |-> TRUE,
          value |-> ObjectValue({<<"analysis", "string", 0, AnalysisBold>>})]
  ELSE IF s = TextScoreString
    THEN [ok |-> TRUE,
          value |-> ObjectValue({<<"score", "string", 0, ScoreHigh>>,
                                 <<"analysis", "string", 0, AnalysisBold>>})]
  ELSE [ok |-> FALSE, value |-> Undefined]

\* The outcome of a thunk: a returned value or a thrown error.
Returns(v) == [ok |-> TRUE, value |-> v, error |-> NoError]

Throws(e) == [ok |-> FALSE, value |-> Undefined, error |-> e]

\* The thunk of generateStyledImage, after the remote call has answered.
generateStyledImageThunk(response) ==
  IF Len(response.parts) >= 1 /\ response.parts[1].inlineData
    THEN Returns(StringValue(JSONstringify(response.parts[1].mimeType,
                                           response.parts[1].data)))
    ELSE Throws(Error(NoImageMessage))

\* The thunk of analyzeTrend, after the remote call has answered.
analyzeTrendThunk(response) ==
  IF response.hasText /\ JSONparse(trim(response.text)).ok
    THEN Returns(JSONparse(trim(response.text)).value)
    ELSE Throws(Error(BadFormatMessage))

apiCall(kind, response) ==
  IF kind = "generate" THEN generateStyledImageThunk(response)
                       ELSE analyzeTrendThunk(response)

Responses(kind) ==
  IF kind = "generate" THEN GenerateResponses ELSE AnalyzeResponses

\* What the remote call of one attempt did: it failed with an error or
\* answered with a response.
RemoteFailed(e) ==
  [failed |-> TRUE, error |-> e, response |-> Response(<< >>, FALSE, << >>)]

RemoteAnswered(r) == [failed |-> FALSE, error |-> NoError, response |-> r]

\* The failures the remote call can raise.
RemoteFailures ==
  { RemoteError(m) :
      m \in { Msg429, MsgQuota, MsgResourceExhausted, Msg500, Msg503,
              MsgUnavailable, Msg400, MsgInvalidArgument, Msg429Invalid,
              Msg503And400, MsgQuota503, MsgTimeout5000, MsgNetwork,
              MsgBadArgument, << >> } }
    \cup { RemoteErrorNoMessage }

(***************************************************************************)
(* State                                                                   *)
(***************************************************************************)
MaxCalls == 2

Calls == 1..MaxCalls

VARIABLES
  callers,     \* the invocations the caller makes in this run
  pc,          \* per invocation: "idle", "awaiting", "sleeping",
               \*   "fulfilled" or "rejected"
  op,          \* per invocation: "generate" or "analyze" ("none" when idle)
  hasOnRetry,  \* per invocation: whether an onRetry callback was passed
  attempt,     \* per invocation: the loop variable of callGeminiWithRetry
  lastError,   \* per invocation: the local lastError
  settled,     \* per invocation: the value or error the promise settled with
  outcomes,    \* per invocation: the outcome of each call of the thunk
  remote,      \* per invocation: what the remote call of each attempt did
  events,      \* per invocation: the observable events, in order
  modelImage,          \* App state: the uploaded model image or null
  selectedClothing,    \* App state: the image data of the selection or null
  selectedClothingId,  \* App state: the id of the selection or null
  generatedImage,      \* App state: the generated image or null
  trendResult,         \* App state: the analysis result or null
  isLoading,           \* App state
  loadingMessage,      \* App state
  error,               \* App state: the error text or null
  items,               \* App state: the clothing library, newest first
  now,                 \* the clock read by Date.now()
  captured,    \* per invocation: the arguments the App handler passed
  generatedFrom \* the invocation whose result generatedImage holds (0: none)

callVars ==
  << callers, pc, op, hasOnRetry, attempt, lastError, settled,
     outcomes, remote, events >>

appVars ==
  << modelImage, selectedClothing, selectedClothingId, generatedImage,
     trendResult, isLoading, loadingMessage, error, items, now, captured,
     generatedFrom >>

vars ==
  << callers, pc, op, hasOnRetry, attempt, lastError, settled,
     outcomes, remote, events, modelImage, selectedClothing,
     selectedClothingId, generatedImage, trendResult, isLoading,
     loadingMessage, error, items, now, captured, generatedFrom >>

Pending == [state |-> "pending", value |-> Undefined, error |-> NoError]


\* Mutation of Fulfilled: `await apiCall(); return;` drops the result.
FulfilledDropsResult(v) ==
  [state |-> "fulfilled", value |-> Undefined, error |-> NoError]

Fulfilled(v) == [state |-> "fulfilled", value |-> v, error |-> NoError]

Rejected(e) == [state |-> "rejected", value |-> Undefined, error |-> e]

InitCalls ==
  /\ pc = [c \in Calls |-> "idle"]
  /\ op = [c \in Calls |-> "none"]
  /\ hasOnRetry = [c \in Calls |-> FALSE]
  /\ attempt = [c \in Calls |-> 0]
  /\ lastError = [c \in Calls |-> NoError]
  /\ settled = [c \in Calls |-> Pending]
  /\ outcomes = [c \in Calls |-> << >>]
  /\ remote = [c \in Calls |-> << >>]
  /\ events = [c \in Calls |-> << >>]

(***************************************************************************)
(* The state of the App component                                          *)
(***************************************************************************)
\* 'Please upload a model image and select a clothing item.'
PleaseUploadMessage ==
  << "P", "l", "e", "a", "s", "e", " ", "u", "p", "l", "o", "a", "d", " ",
     "a", " ", "m", "o", "d", "e", "l", " ", "i", "m", "a", "g", "e", " ",
     "a", "n", "d", " ", "s", "e", "l", "e", "c", "t", " ", "a", " ", "c",
     "l", "o", "t", "h", "i", "n", "g", " ", "i", "t", "e", "m", "." >>

\* 'Generating your look...'
GeneratingMessage ==
  << "G", "e", "n", "e", "r", "a", "t", "i", "n", "g", " ", "y", "o", "u",
     "r", " ", "l", "o", "o", "k", ".", ".", "." >>

\* 'Analyzing the trend...'
AnalyzingMessage ==
  << "A", "n", "a", "l", "y", "z", "i", "n", "g", " ", "t", "h", "e", " ",
     "t", "r", "e", "n", "d", ".", ".", "." >>

\* 'High demand. Retrying image generation... (Attempt '
RetryGenerateHead ==
  << "H", "i", "g", "h", " ", "d", "e", "m", "a", "n", "d", ".", " ", "R",
     "e", "t", "r", "y", "i", "n", "g", " ", "i", "m", "a", "g", "e", " ",
     "g", "e", "n", "e", "r", "a", "t", "i", "o", "n", ".", ".", ".", " ",
     "(", "A", "t", "t", "e", "m", "p", "t", " " >>

\* 'High demand. Retrying trend analysis... (Attempt '
RetryAnalyzeHead ==
  << "H", "i", "g", "h", " ", "d", "e", "m", "a", "n", "d", ".", " ", "R",
     "e", "t", "r", "y", "i", "n", "g", " ", "t", "r", "e", "n", "d", " ",
     "a", "n", "a", "l", "y", "s", "i", "s", ".", ".", ".", " ", "(", "A",
     "t", "t", "e", "m", "p", "t", " " >>

\* '/2)'
RetryTail ==
  << "/", "2", ")" >>

\* 'An unexpected error occurred. Please check the console for details.'
UnexpectedGenerateMessage ==
  << "A", "n", " ", "u", "n", "e", "x", "p", "e", "c", "t", "e", "d", " ",
     "e", "r", "r", "o", "r", " ", "o", "c", "c", "u", "r", "r", "e", "d",
     ".", " ", "P", "l", "e", "a", "s", "e", " ", "c", "h", "e", "c", "k",
     " ", "t", "h", "e", " ", "c", "o", "n", "s", "o", "l", "e", " ", "f",
     "o", "r", " ", "d", "e", "t", "a", "i", "l", "s", "." >>

\* 'An unexpected error occurred during analysis. Please try again.'
UnexpectedAnalyzeMessage ==
  << "A", "n", " ", "u", "n", "e", "x", "p", "e", "c", "t", "e", "d", " ",
     "e", "r", "r", "o", "r", " ", "o", "c", "c", "u", "r", "r", "e", "d",
     " ", "d", "u", "r", "i", "n", "g", " ", "a", "n", "a", "l", "y", "s",
     "i", "s", ".", " ", "P", "l", "e", "a", "s", "e", " ", "t", "r", "y",
     " ", "a", "g", "a", "i", "n", "." >>

\* null, for the state that holds a string or an object
Null == [t |-> "null", s |-> << >>, fields |-> {}]

\* null and a number, for selectedClothingId
NullId == [isNull |-> TRUE, id |-> 0]

Id(n) == [isNull |-> FALSE, id |-> n]

\* `!v` is false: an object or a non-empty string
Truthy(v) == v.t = "object" \/ (v.t = "string" /\ v.s # << >>)

\* The encoded images the uploaders hand over: JSON.stringify({mimeType, data})
ModelImages ==
  { StringValue(JSONstringify(MimePng, DataXyz)),
    StringValue(JSONstringify(MimeJpeg, DataAbc)) }

ItemImages ==
  { StringValue(JSONstringify(MimePng, DataAbc)),
    StringValue(JSONstringify(MimeJpeg, DataXyz)) }

\* The library the App starts with.
initialClothingItems ==
  << [id |-> 1, imageData |-> StringValue(JSONstringify(MimePng, DataAbc))],
     [id |-> 2, imageData |-> StringValue(JSONstringify(MimeJpeg, DataXyz))] >>

\* The clock when the page is loaded, beyond every id of the initial library.
Epoch == 10

\* The arguments of an invocation the App has not made.
NoArguments ==
  [modelImage |-> Null, clothingImage |-> Null, generatedImage |-> Null]

\* The useState initial values of App.
InitApp ==
  /\ modelImage = Null
  /\ selectedClothing = Null
  /\ selectedClothingId = NullId
  /\ generatedImage = Null
  /\ trendResult = Null
  /\ isLoading = FALSE
  /\ loadingMessage = GeneratingMessage
  /\ error = Null
  /\ items = initialClothingItems
  /\ now = Epoch
  /\ captured = [c \in Calls |-> NoArguments]
  /\ generatedFrom = 0

\* The caller makes one invocation.
Init ==
  /\ callers = {1}
  /\ InitCalls
  /\ InitApp

(***************************************************************************)
(* callGeminiWithRetry                                                     *)
(***************************************************************************)

\* Mutation of RetryEvents: onRetry called after the sleep was started.
RetryEventsSleepFirst(c) ==
  << <<"sleep", delay(attempt[c])>> >>
    \o (IF hasOnRetry[c] THEN << <<"onRetry", attempt[c]>> >> ELSE << >>)

\* Mutation of RetryEvents: onRetry called with the 0-based attempt.
RetryEventsZeroBased(c) ==
  (IF hasOnRetry[c] THEN << <<"onRetry", attempt[c] - 1>> >> ELSE << >>)
    \o << <<"sleep", delay(attempt[c])>> >>

\* The events of the retry branch: onRetry?.(attempt), then sleep(delay).
RetryEvents(c) ==
  (IF hasOnRetry[c] THEN << <<"onRetry", attempt[c]>> >> ELSE << >>)
    \o << <<"sleep", delay(attempt[c])>> >>

\* Mutation of Settle: `sleep(delay)` without await, so the next iteration
\* calls the thunk while the backoff sleep is still pending.
SettleWithoutAwaitingSleep(c, o) ==
  /\ outcomes' = [outcomes EXCEPT ![c] = Append(@, o)]
  /\ IF o.ok
       THEN /\ pc' = [pc EXCEPT ![c] = "fulfilled"]
            /\ settled' = [settled EXCEPT ![c] = Fulfilled(o.value)]
            /\ events' = [events EXCEPT ![c] = Append(@, <<"return", attempt[c]>>)]
            /\ UNCHANGED << lastError, attempt >>
       ELSE /\ lastError' = [lastError EXCEPT ![c] = o.error]
            /\ IF CatchBranch(o.error, attempt[c]) = "retry"
                 THEN /\ pc' = [pc EXCEPT ![c] = "awaiting"]
                      /\ attempt' = [attempt EXCEPT ![c] = @ + 1]
                      /\ events' = [events EXCEPT ![c] =
                           @ \o RetryEvents(c)
                             \o << <<"apiCall", attempt[c] + 1>> >>]
                      /\ UNCHANGED settled
                 ELSE /\ pc' = [pc EXCEPT ![c] = "rejected"]
                      /\ settled' = [settled EXCEPT ![c] =
                                       Rejected(CatchThrows(o.error, attempt[c]))]
                      /\ events' = [events EXCEPT ![c] =
                                      Append(@, <<"throw", attempt[c]>>)]
                      /\ UNCHANGED attempt
  /\ UNCHANGED << callers, op, hasOnRetry >>

\* The thunk called in iteration `attempt` settles with outcome o:
\* `return await apiCall()` or the catch block.
Settle(c, o) ==
  /\ outcomes' = [outcomes EXCEPT ![c] = Append(@, o)]
  /\ IF o.ok
       THEN /\ pc' = [pc EXCEPT ![c] = "fulfilled"]
            /\ settled' = [settled EXCEPT ![c] = Fulfilled(o.value)]
            /\ events' = [events EXCEPT ![c] = Append(@, <<"return", attempt[c]>>)]
            /\ UNCHANGED lastError
       ELSE /\ lastError' = [lastError EXCEPT ![c] = o.error]
            /\ IF CatchBranch(o.error, attempt[c]) = "retry"
                 THEN /\ pc' = [pc EXCEPT ![c] = "sleeping"]
                      /\ events' = [events EXCEPT ![c] = @ \o RetryEvents(c)]
                      /\ UNCHANGED settled
                 ELSE /\ pc' = [pc EXCEPT ![c] = "rejected"]
                      /\ settled' = [settled EXCEPT ![c] =
                                       Rejected(CatchThrows(o.error, attempt[c]))]
                      /\ events' = [events EXCEPT ![c] =
                                      Append(@, <<"throw", attempt[c]>>)]
  /\ UNCHANGED << callers, op, hasOnRetry, attempt >>

\* generateStyledImage / analyzeTrend is called: callGeminiWithRetry enters
\* its loop with attempt = 1 and calls the thunk, which starts the remote
\* call.
Start(c, kind, cb) ==
  /\ c \in callers
  /\ pc[c] = "idle"
  /\ pc' = [pc EXCEPT ![c] = "awaiting"]
  /\ op' = [op EXCEPT ![c] = kind]
  /\ hasOnRetry' = [hasOnRetry EXCEPT ![c] = cb]
  /\ attempt' = [attempt EXCEPT ![c] = 1]
  /\ events' = [events EXCEPT ![c] = << <<"apiCall", 1>> >>]
  /\ UNCHANGED << callers, lastError, settled, outcomes, remote >>

\* The remote call of the pending attempt fails with error e.
RemoteFails(c, e) ==
  /\ pc[c] = "awaiting"
  /\ e \in RemoteFailures
  /\ remote' = [remote EXCEPT ![c] = Append(@, RemoteFailed(e))]
  /\ Settle(c, Throws(e))

\* The remote call of the pending attempt answers with response r; the
\* thunk returns a value or throws its own error.
RemoteResponds(c, r) ==
  /\ pc[c] = "awaiting"
  /\ r \in Responses(op[c])
  /\ remote' = [remote EXCEPT ![c] = Append(@, RemoteAnswered(r))]
  /\ Settle(c, apiCall(op[c], r))

\* Mutation of TimerFires: the loop variable is shared by the invocations
\* (declared outside callGeminiWithRetry), so `attempt++` also advances
\* the attempt of every other invocation in flight.
TimerFiresSharedAttempt(c) ==
  /\ pc[c] = "sleeping"
  /\ attempt' = [d \in Calls |->
                   IF pc[d] \in {"awaiting", "sleeping"}
                     THEN attempt[d] + 1 ELSE attempt[d]]
  /\ IF attempt[c] + 1 <= MAX_RETRIES
       THEN /\ pc' = [pc EXCEPT ![c] = "awaiting"]
            /\ events' = [events EXCEPT ![c] =
                 @ \o << <<"wake", delay(attempt[c])>>,
                         <<"apiCall", attempt[c] + 1>> >>]
            /\ UNCHANGED settled
       ELSE /\ pc' = [pc EXCEPT ![c] = "rejected"]
            /\ events' = [events EXCEPT ![c] =
                 @ \o << <<"wake", delay(attempt[c])>>,
                         <<"throwAfterLoop", attempt[c] + 1>> >>]
            /\ settled' = [settled EXCEPT ![c] = Rejected(lastError[c])]
  /\ UNCHANGED << callers, op, hasOnRetry, lastError, outcomes, remote >>

\* Mutation of TimerFires: `new Promise(resolve => setTimeout(() => {}, ms))`
\* never resolves, so the awaiting loop is never resumed.
TimerFiresWithoutResolve(c) ==
  /\ pc[c] = "sleeping"
  /\ FALSE
  /\ UNCHANGED vars

\* Mutation of TimerFires: the loop condition `attempt < MAX_RETRIES`, so
\* the loop ends before the last attempt the catch block counted on.
TimerFiresLoopEndsEarly(c) ==
  /\ pc[c] = "sleeping"
  /\ attempt' = [attempt EXCEPT ![c] = @ + 1]
  /\ IF attempt[c] + 1 < MAX_RETRIES
       THEN /\ pc' = [pc EXCEPT ![c] = "awaiting"]
            /\ events' = [events EXCEPT ![c] =
                 @ \o << <<"wake", delay(attempt[c])>>,
                         <<"apiCall", attempt[c] + 1>> >>]
            /\ UNCHANGED settled
       ELSE /\ pc' = [pc EXCEPT ![c] = "rejected"]
            /\ events' = [events EXCEPT ![c] =
                 @ \o << <<"wake", delay(attempt[c])>>,
                         <<"throwAfterLoop", attempt[c] + 1>> >>]
            /\ settled' = [settled EXCEPT ![c] = Rejected(lastError[c])]
  /\ UNCHANGED << callers, op, hasOnRetry, lastError, outcomes, remote >>

\* The backoff timer fires: `continue`, attempt++, and either the next
\* call of the thunk or the throw after the loop.
TimerFires(c) ==
  /\ pc[c] = "sleeping"
  /\ attempt' = [attempt EXCEPT ![c] = @ + 1]
  /\ IF attempt[c] + 1 <= MAX_RETRIES
       THEN /\ pc' = [pc EXCEPT ![c] = "awaiting"]
            /\ events' = [events EXCEPT ![c] =
                 @ \o << <<"wake", delay(attempt[c])>>,
                         <<"apiCall", attempt[c] + 1>> >>]
            /\ UNCHANGED settled
       ELSE /\ pc' = [pc EXCEPT ![c] = "rejected"]
            /\ events' = [events EXCEPT ![c] =
                 @ \o << <<"wake", delay(attempt[c])>>,
                         <<"throwAfterLoop", attempt[c] + 1>> >>]
            /\ settled' = [settled EXCEPT ![c] =
                 Rejected(IF lastError[c] # NoError
                            THEN lastError[c]
                            ELSE [cls |-> "ApiError", hasMessage |-> TRUE,
                                  message |-> UnknownErrorMessage])]
  /\ UNCHANGED << callers, op, hasOnRetry, lastError, outcomes, remote >>

\* The steps of an invocation made by a caller other than the App: the
\* state of the App is not involved.
CallerStarts(c, kind, cb) == Start(c, kind, cb) /\ UNCHANGED appVars

CallFails(c, e) == RemoteFails(c, e) /\ UNCHANGED appVars

CallResponds(c, r) == RemoteResponds(c, r) /\ UNCHANGED appVars

CallResumes(c) == TimerFires(c) /\ UNCHANGED appVars

Next ==
  \E c \in Calls :
    \/ \E kind \in {"generate", "analyze"}, cb \in BOOLEAN :
         CallerStarts(c, kind, cb)
    \/ \E e \in RemoteFailures : CallFails(c, e)
    \/ \E r \in GenerateResponses \cup AnalyzeResponses : CallResponds(c, r)
    \/ CallResumes(c)

Spec == Init /\ [][Next]_vars

\* The remote call of the pending attempt of invocation c settles.
RemoteSettles(c) ==
  \/ \E e \in RemoteFailures : CallFails(c, e)
  \/ \E r \in GenerateResponses \cup AnalyzeResponses : CallResponds(c, r)

\* Every remote call eventually settles and every backoff timer eventually
\* fires.
SpecFair ==
  /\ Init
  /\ [][Next]_vars
  /\ \A c \in Calls : WF_vars(RemoteSettles(c)) /\ WF_vars(CallResumes(c))

(***************************************************************************)
(* Concurrent invocations: the caller starts every invocation of Calls,    *)
(* and their steps interleave at the awaits (remote call, backoff sleep).  *)
(***************************************************************************)
ConcurrentFailures ==
  {RemoteError(Msg503), RemoteError(Msg400), RemoteError(MsgNetwork)}

ConcurrentResponses ==
  { Response(<< ImagePart(MimePng, DataAbc) >>, FALSE, << >>),
    Response(<< TextPart >>, FALSE, << >>),
    Response(<< >>, TRUE, TextValid),
    Response(<< >>, TRUE, TextOops) }

InitConcurrent ==
  /\ callers = Calls
  /\ InitCalls
  /\ InitApp

NextConcurrent ==
  \E c \in Calls :
    \/ \E kind \in {"generate", "analyze"} : CallerStarts(c, kind, TRUE)
    \/ \E e \in ConcurrentFailures : CallFails(c, e)
    \/ \E r \in ConcurrentResponses : CallResponds(c, r)
    \/ CallResumes(c)

SpecConcurrent == InitConcurrent /\ [][NextConcurrent]_vars

(***************************************************************************)
(* The App component: its event handlers, and the invocations it makes     *)
(***************************************************************************)
Digits == << "0", "1", "2", "3", "4", "5", "6", "7", "8", "9" >>

\* `${n}` for a natural number n
RECURSIVE numberToString(_)
numberToString(n) ==
  IF n < 10 THEN << Digits[n + 1] >>
  ELSE numberToString(n \div 10) \o << Digits[(n % 10) + 1] >>

\* The text the onRetry callback of a handler passes to setLoadingMessage.
RetryMessage(kind, n) ==
  (IF kind = "generate" THEN RetryGenerateHead ELSE RetryAnalyzeHead)
    \o numberToString(n) \o RetryTail

canGenerate == Truthy(modelImage) /\ Truthy(selectedClothing) /\ ~isLoading

\* The "Generate Look" button is not disabled.
GenerateEnabled == canGenerate /\ ~Truthy(generatedImage)

\* renderOutputContent shows the preview with its "Try Again" and
\* "Analyze Trend" buttons.
PreviewShown ==
  /\ ~isLoading
  /\ ~(Truthy(error) /\ ~Truthy(generatedImage))
  /\ ~(Truthy(generatedImage) /\ Truthy(trendResult))
  /\ Truthy(generatedImage)

\* The "Start Over" button is rendered.
StartOverShown == (Truthy(generatedImage) \/ Truthy(error)) /\ ~isLoading

\* The library may take MaxAdds more items.
MaxAdds == 2

\* The positions of the gallery.
Positions == 1..(Len(initialClothingItems) + MaxAdds)

\* The four setters of handleStartOver.
StartOverSets ==
  /\ generatedImage' = Null
  /\ trendResult' = Null
  /\ error' = Null
  /\ isLoading' = FALSE
  /\ generatedFrom' = 0

handleStartOver ==
  /\ StartOverShown
  /\ StartOverSets
  /\ UNCHANGED << modelImage, selectedClothing, selectedClothingId,
                  loadingMessage, items, now, captured >>
  /\ UNCHANGED callVars

handleModelImageUpload(image) ==
  /\ modelImage' = image
  /\ StartOverSets
  /\ UNCHANGED << selectedClothing, selectedClothingId, loadingMessage,
                  items, now, captured >>
  /\ UNCHANGED callVars

\* A click on the i-th item of the gallery: onSelect(item.id, item.imageData).
handleClothingSelect(i) ==
  /\ i \in 1..Len(items)
  /\ selectedClothingId' = Id(items[i].id)
  /\ selectedClothing' = items[i].imageData
  /\ StartOverSets
  /\ UNCHANGED << modelImage, loadingMessage, items, now, captured >>
  /\ UNCHANGED callVars

\* Mutation of handleRemoveItem: the test of lines 52-55 left out, so the
\* selection survives the removal of the selected item.
handleRemoveItemKeepsSelection(i) ==
  /\ i \in 1..Len(items)
  /\ LET idToRemove == items[i].id IN
       items' = SelectSeq(items, LAMBDA item : item.id # idToRemove)
  /\ UNCHANGED << selectedClothing, selectedClothingId >>
  /\ StartOverSets
  /\ UNCHANGED << modelImage, loadingMessage, now, captured >>
  /\ UNCHANGED callVars

\* A click on the remove button of the i-th item of the gallery.
handleRemoveItem(i) ==
  /\ i \in 1..Len(items)
  /\ LET idToRemove == items[i].id IN
       /\ items' = SelectSeq(items, LAMBDA item : item.id # idToRemove)
       /\ IF selectedClothingId = Id(idToRemove)
            THEN /\ selectedClothing' = Null
                 /\ selectedClothingId' = NullId
            ELSE UNCHANGED << selectedClothing, selectedClothingId >>
  /\ StartOverSets
  /\ UNCHANGED << modelImage, loadingMessage, now, captured >>
  /\ UNCHANGED callVars

\* The form of AddItemForm is submitted with an image: the new item gets
\* the id Date.now(), the clock having advanced since the last submission.
handleAddItem(imageData) ==
  /\ now < Epoch + MaxAdds
  /\ now' = now + 1
  /\ items' = << [id |-> now', imageData |-> imageData] >> \o items
  /\ UNCHANGED << modelImage, selectedClothing, selectedClothingId,
                  generatedImage, trendResult, isLoading, loadingMessage,
                  error, captured, generatedFrom >>
  /\ UNCHANGED callVars

\* The invocation a handler makes next: the first one not yet made.
IsNextCall(c) ==
  /\ c \in callers
  /\ pc[c] = "idle"
  /\ \A d \in callers : pc[d] = "idle" => c <= d

\* Mutation of handleGenerateImage: the setters of lines 66-70 placed
\* before the test of the inputs.
handleGenerateImageResetsFirst ==
  /\ GenerateEnabled \/ PreviewShown
  /\ isLoading' = TRUE
  /\ loadingMessage' = GeneratingMessage
  /\ generatedImage' = Null
  /\ trendResult' = Null
  /\ generatedFrom' = 0
  /\ IF ~Truthy(modelImage) \/ ~Truthy(selectedClothing)
       THEN /\ error' = StringValue(PleaseUploadMessage)
            /\ UNCHANGED << modelImage, selectedClothing, selectedClothingId,
                            items, now, captured >>
            /\ UNCHANGED callVars
       ELSE /\ error' = Null
            /\ \E c \in Calls :
                 /\ IsNextCall(c)
                 /\ Start(c, "generate", TRUE)
                 /\ captured' = [captured EXCEPT ![c] =
                      [modelImage |-> modelImage,
                       clothingImage |-> selectedClothing,
                       generatedImage |-> Null]]
            /\ UNCHANGED << modelImage, selectedClothing, selectedClothingId,
                            items, now >>

\* A click on "Generate Look" or on "Try Again".
handleGenerateImage ==
  /\ GenerateEnabled \/ PreviewShown
  /\ IF ~Truthy(modelImage) \/ ~Truthy(selectedClothing)
       THEN /\ error' = StringValue(PleaseUploadMessage)
            /\ UNCHANGED << modelImage, selectedClothing, selectedClothingId,
                            generatedImage, trendResult, isLoading,
                            loadingMessage, items, now, captured,
                            generatedFrom >>
            /\ UNCHANGED callVars
       ELSE /\ isLoading' = TRUE
            /\ loadingMessage' = GeneratingMessage
            /\ error' = Null
            /\ generatedImage' = Null
            /\ trendResult' = Null
            /\ generatedFrom' = 0
            /\ \E c \in Calls :
                 /\ IsNextCall(c)
                 /\ Start(c, "generate", TRUE)
                 /\ captured' = [captured EXCEPT ![c] =
                      [modelImage |-> modelImage,
                       clothingImage |-> selectedClothing,
                       generatedImage |-> Null]]
            /\ UNCHANGED << modelImage, selectedClothing, selectedClothingId,
                            items, now >>

\* A click on "Analyze Trend".
handleAnalyzeTrend ==
  /\ PreviewShown
  /\ IF ~Truthy(generatedImage)
       THEN UNCHANGED vars
       ELSE /\ isLoading' = TRUE
            /\ loadingMessage' = AnalyzingMessage
            /\ error' = Null
            /\ \E c \in Calls :
                 /\ IsNextCall(c)
                 /\ Start(c, "analyze", TRUE)
                 /\ captured' = [captured EXCEPT ![c] =
                      [modelImage |-> Null, clothingImage |-> Null,
                       generatedImage |-> generatedImage]]
            /\ UNCHANGED << modelImage, selectedClothing, selectedClothingId,
                            generatedImage, trendResult, items, now,
                            generatedFrom >>

\* What the handler that made invocation c does at the step the invocation
\* has just taken: the onRetry callback when the step ends at a backoff
\* sleep; the rest of the handler (the statement after the await, or the
\* catch block, then the finally block) when the step settles the
\* invocation, in the same turn of the event loop.
HandlerReacts(c) ==
  IF pc'[c] = "sleeping" /\ pc[c] # "sleeping"
    THEN /\ loadingMessage' = RetryMessage(op[c], attempt[c])
         /\ UNCHANGED << modelImage, selectedClothing, selectedClothingId,
                         generatedImage, trendResult, isLoading, error,
                         items, now, captured, generatedFrom >>
  ELSE IF settled'[c].state = "fulfilled"
    THEN /\ IF op[c] = "generate"
              THEN /\ generatedImage' = settled'[c].value
                   /\ generatedFrom' = c
                   /\ UNCHANGED trendResult
              ELSE /\ trendResult' = settled'[c].value
                   /\ UNCHANGED << generatedImage, generatedFrom >>
         /\ isLoading' = FALSE
         /\ UNCHANGED << modelImage, selectedClothing, selectedClothingId,
                         loadingMessage, error, items, now, captured >>
  ELSE IF settled'[c].state = "rejected"
    THEN /\ error' =
              IF instanceofApiError(settled'[c].error)
                THEN StringValue(settled'[c].error.message)
              ELSE IF op[c] = "generate"
                THEN StringValue(UnexpectedGenerateMessage)
              ELSE StringValue(UnexpectedAnalyzeMessage)
         /\ isLoading' = FALSE
         /\ UNCHANGED << modelImage, selectedClothing, selectedClothingId,
                         generatedImage, trendResult, loadingMessage,
                         items, now, captured, generatedFrom >>
  ELSE UNCHANGED appVars

\* The failures and responses of the remote service in a run of the App.
AppFailures == {RemoteError(Msg503), RemoteError(Msg400)}

AppResponses ==
  { Response(<< ImagePart(MimePng, DataAbc) >>, FALSE, << >>),
    Response(<< >>, TRUE, TextValid) }

AppRemoteFails(c, e) == RemoteFails(c, e) /\ HandlerReacts(c)

AppRemoteResponds(c, r) == RemoteResponds(c, r) /\ HandlerReacts(c)

AppTimerFires(c) == TimerFires(c) /\ HandlerReacts(c)

\* The App makes two invocations in a run.
InitAppRun ==
  /\ callers = {1, 2}
  /\ InitCalls
  /\ InitApp

NextApp ==
  \/ handleStartOver
  \/ \E image \in ModelImages : handleModelImageUpload(image)
  \/ \E i \in Positions : handleClothingSelect(i)
  \/ \E i \in Positions : handleRemoveItem(i)
  \/ handleGenerateImage
  \/ handleAnalyzeTrend
  \/ \E c \in Calls :
       \/ \E e \in AppFailures : AppRemoteFails(c, e)
       \/ \E r \in AppResponses : AppRemoteResponds(c, r)
       \/ AppTimerFires(c)

SpecApp == InitAppRun /\ [][NextApp]_vars

\* The events of the clothing library alone.
NextLibrary ==
  \/ \E imageData \in ItemImages : handleAddItem(imageData)
  \/ \E i \in Positions : handleClothingSelect(i)
  \/ \E i \in Positions : handleRemoveItem(i)

SpecLibrary == InitAppRun /\ [][NextLibrary]_vars

(***************************************************************************)
(* Observations on a run                                                   *)
(***************************************************************************)
\* The arguments of the events of the given name of invocation c, in order.
EventArgs(c, name) ==
  LET sel == SelectSeq(events[c], LAMBDA ev : ev[1] = name)
  IN  [i \in 1..Len(sel) |-> sel[i][2]]

\* The position of event ev in the events of invocation c (0 when absent).
EventIndex(c, ev) ==
  IF \E i \in 1..Len(events[c]) : events[c][i] = ev
    THEN CHOOSE i \in 1..Len(events[c]) : events[c][i] = ev
    ELSE 0

\* The marker sets of the error taxonomy.
InvalidInputMarkers == {Marker400, MarkerInvalidArgument}

RateLimitMarkers == {Marker429, MarkerQuota, MarkerResourceExhausted}

ServerErrorMarkers == {Marker500, Marker503, MarkerServiceUnavailable}

\* Outcome o is a failure whose message contains, case-insensitively, one
\* of the markers.
FailsWithMarker(o, markers) ==
  /\ ~o.ok
  /\ o.error.hasMessage
  /\ \E k \in markers : includes(toLowerCase(o.error.message), k)

\* Outcome o is a rate-limit or server-error failure with no invalid-input
\* marker.
RetriableFailure(o) ==
  /\ FailsWithMarker(o, RateLimitMarkers \cup ServerErrorMarkers)
  /\ ~FailsWithMarker(o, InvalidInputMarkers)

\* Outcome o is a failure that matches no marker at all.
UnclassifiedFailure(o) ==
  /\ ~o.ok
  /\ ~FailsWithMarker(o, InvalidInputMarkers \cup RateLimitMarkers
                           \cup ServerErrorMarkers)

IsSettled(c) == pc[c] \in {"fulfilled", "rejected"}

(***************************************************************************)
(* C1: whatever the outcomes of the remote call are, one invocation of     *)
(* callGeminiWithRetry calls the operation thunk at most 3 times.          *)
(***************************************************************************)
C1_AtMostThreeCalls ==
  \A c \in Calls :
    /\ Len(EventArgs(c, "apiCall")) <= 3
    /\ Len(outcomes[c]) <= 3

C1_Witness ==
  \E c \in Calls :
    /\ IsSettled(c)
    /\ EventArgs(c, "apiCall") = <<1, 2, 3>>
    /\ Len(outcomes[c]) = 3

(***************************************************************************)
(* C2: when the operation succeeds on attempt k (1 <= k <= 3), the         *)
(* invocation resolves with exactly that attempt's result, and nothing     *)
(* follows the success: attempt k stays the last call of the thunk and     *)
(* the return stays the last event (no further apiCall, no onRetry).       *)
(***************************************************************************)
C2_SuccessReturnsAtOnce ==
  \A c \in Calls : \A k \in 1..Len(outcomes[c]) :
    outcomes[c][k].ok =>
      /\ k \in 1..3
      /\ Len(outcomes[c]) = k
      /\ pc[c] = "fulfilled"
      /\ settled[c] = [state |-> "fulfilled", value |-> outcomes[c][k].value,
                       error |-> NoError]
      /\ EventArgs(c, "apiCall") = [i \in 1..k |-> i]
      /\ Len(events[c]) >= 2
      /\ events[c][Len(events[c])] = <<"return", k>>
      /\ events[c][Len(events[c]) - 1] = <<"apiCall", k>>

C2_Witness ==
  \E c \in Calls :
    /\ pc[c] = "fulfilled"
    /\ Len(outcomes[c]) = 3
    /\ settled[c].value = StringValue(JSONstringify(MimePng, DataAbc))
    /\ EventArgs(c, "onRetry") = <<1, 2>>

(***************************************************************************)
(* C3: when an attempt (1st, 2nd or 3rd) fails with a message containing   *)
(* "400" or "invalid argument" in any letter case, the invocation rejects  *)
(* with InvalidInputError at once, even if the message also has a          *)
(* rate-limit or server-error marker: the throw directly follows that      *)
(* call of the thunk and stays the last event (no onRetry, no sleep, no    *)
(* further call).                                                          *)
(***************************************************************************)
C3_InvalidInputFailsAtOnce ==
  \A c \in Calls : \A n \in 1..Len(outcomes[c]) :
    FailsWithMarker(outcomes[c][n], InvalidInputMarkers) =>
      /\ Len(outcomes[c]) = n
      /\ pc[c] = "rejected"
      /\ settled[c].state = "rejected"
      /\ settled[c].error.cls = "InvalidInputError"
      /\ events[c][Len(events[c])] = <<"throw", n>>
      /\ events[c][Len(events[c]) - 1] = <<"apiCall", n>>
      /\ Len(EventArgs(c, "onRetry")) <= n - 1
      /\ Len(EventArgs(c, "sleep")) = n - 1

C3_Witness ==
  \E c \in Calls :
    /\ Len(outcomes[c]) = 3
    /\ outcomes[c][3].error.message = Msg429Invalid
    /\ settled[c].error.cls = "InvalidInputError"

(***************************************************************************)
(* C4: when the remote service answers generateStyledImage with a failure  *)
(* whose message contains "400" or "invalid argument", the promise rejects *)
(* with an InvalidInputError on the first attempt: the thunk has been      *)
(* called exactly once and onRetry not at all.                             *)
(***************************************************************************)
C4_GenerateInvalidInputFirstAttempt ==
  \A c \in Calls :
    ( /\ op[c] = "generate"
      /\ Len(outcomes[c]) >= 1
      /\ FailsWithMarker(outcomes[c][1], InvalidInputMarkers) ) =>
        /\ settled[c].state = "rejected"
        /\ settled[c].error.cls = "InvalidInputError"
        /\ settled[c].error.message = InvalidInputMessage
        /\ instanceofApiError(settled[c].error)
        /\ events[c] = << <<"apiCall", 1>>, <<"throw", 1>> >>
        /\ EventArgs(c, "onRetry") = << >>

C4_Witness ==
  \E c \in Calls :
    /\ op[c] = "generate"
    /\ hasOnRetry[c]
    /\ outcomes[c] = << Throws(RemoteError(Msg400)) >>
    /\ pc[c] = "rejected"

(***************************************************************************)
(* C5: when attempt n (n = 1 or 2) fails with a rate-limit or server-error *)
(* message that has no invalid-input marker, the events that follow the    *)
(* call of attempt n are, in this order: onRetry(n) (when a callback was   *)
(* passed), the start of the backoff sleep, the end of that sleep, the     *)
(* call of attempt n+1.  The next call never precedes the end of the       *)
(* sleep, onRetry(n) is called once and never after the sleep started,     *)
(* and while the sleep is pending it is the last event.                    *)
(***************************************************************************)
C5_RetryOrder ==
  \A c \in Calls : \A n \in 1..Len(outcomes[c]) :
    (n \in {1, 2} /\ RetriableFailure(outcomes[c][n])) =>
      LET E == events[c]
          i == EventIndex(c, <<"apiCall", n>>)
          s == IF hasOnRetry[c] THEN i + 2 ELSE i + 1
      IN  /\ i > 0
          /\ Len(E) >= s
          /\ hasOnRetry[c] => E[i + 1] = <<"onRetry", n>>
          /\ E[s][1] = "sleep"
          /\ Len(SelectSeq(E, LAMBDA ev : ev = <<"onRetry", n>>))
               = (IF hasOnRetry[c] THEN 1 ELSE 0)
          /\ (pc[c] = "sleeping" /\ Len(outcomes[c]) = n) <=> Len(E) = s
          /\ Len(E) > s =>
               /\ Len(E) >= s + 2
               /\ E[s + 1] = <<"wake", E[s][2]>>
               /\ E[s + 2] = <<"apiCall", n + 1>>

C5_Witness ==
  \E c \in Calls :
    /\ hasOnRetry[c]
    /\ pc[c] = "awaiting"
    /\ Len(outcomes[c]) = 2
    /\ outcomes[c][1] = Throws(RemoteError(MsgQuota))
    /\ outcomes[c][2] = Throws(RemoteError(MsgTimeout5000))
    /\ Len(events[c]) = 9

(***************************************************************************)
(* C6: within one invocation onRetry is called at most twice, with         *)
(* strictly increasing arguments: first 1, then (if at all) 2.             *)
(***************************************************************************)
C6_OnRetryArguments ==
  \A c \in Calls : EventArgs(c, "onRetry") \in {<< >>, <<1>>, <<1, 2>>}

C6_Witness ==
  \E c \in Calls : IsSettled(c) /\ EventArgs(c, "onRetry") = <<1, 2>>

(***************************************************************************)
(* C7: the backoff delay requested after a retriable failure of attempt 1  *)
(* is 1000 ms and after one of attempt 2 is 2000 ms; no sleep follows      *)
(* attempt 3, so the delays of one invocation sum to at most 3000 ms.      *)
(***************************************************************************)
RECURSIVE SumSeq(_)
SumSeq(s) == IF s = << >> THEN 0 ELSE Head(s) + SumSeq(Tail(s))

C7_BackoffDelays ==
  \A c \in Calls :
    /\ EventArgs(c, "sleep") \in {<< >>, <<1000>>, <<1000, 2000>>}
    /\ SumSeq(EventArgs(c, "sleep")) <= 3000
    /\ \A n \in 1..Len(outcomes[c]) :
         (n \in {1, 2} /\ RetriableFailure(outcomes[c][n]))
            => Len(EventArgs(c, "sleep")) >= n
    /\ (Len(outcomes[c]) = 3 /\ ~outcomes[c][3].ok) =>
         /\ events[c][Len(events[c])] = <<"throw", 3>>
         /\ Len(EventArgs(c, "sleep")) = 2

C7_Witness ==
  \E c \in Calls :
    /\ pc[c] = "rejected"
    /\ Len(outcomes[c]) = 3
    /\ RetriableFailure(outcomes[c][3])
    /\ EventArgs(c, "sleep") = <<1000, 2000>>
    /\ EventArgs(c, "wake") = <<1000, 2000>>

\* Outcome o is a failure with a rate-limit marker and no invalid-input
\* marker.
RateLimitFailure(o) ==
  /\ FailsWithMarker(o, RateLimitMarkers)
  /\ ~FailsWithMarker(o, InvalidInputMarkers)

(***************************************************************************)
(* C8 as stated: when the first failure has a rate-limit message with no   *)
(* invalid-input marker, the invocation ends with RateLimitError if and    *)
(* only if all three attempts fail with a rate-limit message.              *)
(***************************************************************************)
C8_Original ==
  \A c \in Calls :
    ( /\ IsSettled(c)
      /\ Len(outcomes[c]) >= 1
      /\ RateLimitFailure(outcomes[c][1]) ) =>
        ( settled[c].error.cls = "RateLimitError"
            <=> /\ Len(outcomes[c]) = 3
                /\ \A n \in 1..3 : RateLimitFailure(outcomes[c][n]) )

(***************************************************************************)
(* C8 (amended): when the first failure has a rate-limit message with no   *)
(* invalid-input marker, the thunk is called at most 2 more times, and the *)
(* invocation ends with RateLimitError if and only if all three attempts   *)
(* fail with a rate-limit or server-error message without invalid-input    *)
(* marker and the message of the third failure has a rate-limit marker.    *)
(***************************************************************************)
C8_RateLimitAfterRetries ==
  \A c \in Calls :
    ( /\ IsSettled(c)
      /\ Len(outcomes[c]) >= 1
      /\ RateLimitFailure(outcomes[c][1]) ) =>
        /\ Len(EventArgs(c, "apiCall")) <= 3
        /\ ( settled[c].error.cls = "RateLimitError"
               <=> /\ Len(outcomes[c]) = 3
                   /\ \A n \in 1..3 : RetriableFailure(outcomes[c][n])
                   /\ RateLimitFailure(outcomes[c][3]) )
        /\ settled[c].error.cls = "RateLimitError" =>
             /\ settled[c].state = "rejected"
             /\ settled[c].error.message = RateLimitDefaultMessage
             /\ EventArgs(c, "apiCall") = <<1, 2, 3>>

C8_Witness ==
  \E c \in Calls :
    /\ pc[c] = "rejected"
    /\ outcomes[c] = << Throws(RemoteError(Msg429)),
                        Throws(RemoteError(Msg503)),
                        Throws(RemoteError(MsgQuota503)) >>
    /\ settled[c].error.cls = "RateLimitError"

(***************************************************************************)
(* C9: when the 3rd attempt fails with a message classified as rate-limit  *)
(* or server-error (a rate-limit or server-error marker and, by the        *)
(* precedence of the taxonomy, no invalid-input marker), the invocation    *)
(* rejects with the error of that last message alone: RateLimitError when  *)
(* it has a rate-limit marker (also next to a server-error marker),        *)
(* ServerError otherwise, whatever the failures of attempts 1 and 2 were;  *)
(* the throw directly follows the 3rd call: no third onRetry or sleep.     *)
(***************************************************************************)
C9_LastFailureDecides ==
  \A c \in Calls :
    (Len(outcomes[c]) = 3 /\ RetriableFailure(outcomes[c][3])) =>
      /\ pc[c] = "rejected"
      /\ settled[c].state = "rejected"
      /\ settled[c].error =
           (IF FailsWithMarker(outcomes[c][3], RateLimitMarkers)
              THEN [cls |-> "RateLimitError", hasMessage |-> TRUE,
                    message |-> RateLimitDefaultMessage]
              ELSE [cls |-> "ServerError", hasMessage |-> TRUE,
                    message |-> ServerDefaultMessage])
      /\ events[c][Len(events[c])] = <<"throw", 3>>
      /\ events[c][Len(events[c]) - 1] = <<"apiCall", 3>>
      /\ Len(EventArgs(c, "sleep")) = 2
      /\ Len(EventArgs(c, "onRetry")) <= 2

C9_Witness ==
  \E c \in Calls :
    /\ hasOnRetry[c]
    /\ outcomes[c] = << Throws(RemoteError(Msg429)),
                        Throws(RemoteError(MsgResourceExhausted)),
                        Throws(RemoteError(Msg500)) >>
    /\ settled[c].error.cls = "ServerError"
    /\ EventArgs(c, "onRetry") = <<1, 2>>

(***************************************************************************)
(* C10: when an attempt, whichever it is, fails with a message that        *)
(* matches no invalid-input, rate-limit or server-error marker, the        *)
(* invocation rejects at once with a plain ApiError that carries the       *)
(* original message of the failure (the empty message when the failure has *)
(* none): the throw directly follows that call of the thunk and stays the  *)
(* last event (no onRetry, no sleep, no further call).                     *)
(***************************************************************************)
C10_UnclassifiedFailsAtOnce ==
  \A c \in Calls : \A n \in 1..Len(outcomes[c]) :
    UnclassifiedFailure(outcomes[c][n]) =>
      /\ Len(outcomes[c]) = n
      /\ pc[c] = "rejected"
      /\ settled[c].state = "rejected"
      /\ settled[c].error.cls = "ApiError"
      /\ settled[c].error.hasMessage
      /\ settled[c].error.message =
           (IF outcomes[c][n].error.hasMessage
              THEN outcomes[c][n].error.message ELSE << >>)
      /\ events[c][Len(events[c])] = <<"throw", n>>
      /\ events[c][Len(events[c]) - 1] = <<"apiCall", n>>
      /\ Len(EventArgs(c, "sleep")) = n - 1
      /\ Len(EventArgs(c, "onRetry")) <= n - 1

C10_Witness ==
  \E c \in Calls :
    /\ Len(outcomes[c]) = 3
    /\ outcomes[c][3] = Throws(RemoteError(MsgNetwork))
    /\ settled[c].error.cls = "ApiError"
    /\ settled[c].error.message = MsgNetwork

\* The remote call of attempt n of invocation c answered, but with nothing
\* the operation can use: no image part at all (generateStyledImage), or a
\* text that is absent or does not parse as JSON (analyzeTrend).
NoUsableOutput(c, n) ==
  /\ n \in 1..Len(remote[c])
  /\ ~remote[c][n].failed
  /\ IF op[c] = "generate"
       THEN \A i \in 1..Len(remote[c][n].response.parts) :
              ~remote[c][n].response.parts[i].inlineData
       ELSE \/ ~remote[c][n].response.hasText
            \/ ~JSONparse(trim(remote[c][n].response.text)).ok

\* The message of the semantic failure of the operation of invocation c.
SemanticMessage(c) ==
  IF op[c] = "generate" THEN NoImageMessage ELSE BadFormatMessage

(***************************************************************************)
(* C11 as stated: a semantic failure (the remote call answered without a   *)
(* usable image, or with unparseable analysis text) reaches the caller as  *)
(* a plain Error, not as an ApiError or one of its subtypes.               *)
(***************************************************************************)
C11_Original ==
  \A c \in Calls : \A n \in 1..Len(remote[c]) :
    NoUsableOutput(c, n) =>
      /\ settled[c].state = "rejected"
      /\ settled[c].error.cls
           \notin {"ApiError", "RateLimitError", "InvalidInputError",
                   "ServerError"}

(***************************************************************************)
(* C11 (amended): a semantic failure is thrown inside the retried thunk    *)
(* and so passes through the classification of callGeminiWithRetry: its    *)
(* message matches no marker, and it reaches the caller as a plain         *)
(* ApiError (none of the subtypes) that carries the semantic message of    *)
(* the operation.                                                          *)
(***************************************************************************)
C11_SemanticFailureWrapped ==
  \A c \in Calls : \A n \in 1..Len(remote[c]) :
    NoUsableOutput(c, n) =>
      /\ outcomes[c][n] =
           [ok |-> FALSE, value |-> Undefined,
            error |-> [cls |-> "Error", hasMessage |-> TRUE,
                       message |-> SemanticMessage(c)]]
      /\ settled[c].state = "rejected"
      /\ settled[c].error =
           [cls |-> "ApiError", hasMessage |-> TRUE,
            message |-> SemanticMessage(c)]

C11_Witness ==
  \E c \in Calls :
    /\ op[c] = "analyze"
    /\ Len(remote[c]) = 1
    /\ remote[c][1] = RemoteAnswered(Response(<< >>, TRUE, TextOops))
    /\ settled[c].error.cls = "ApiError"
    /\ settled[c].error.message = BadFormatMessage

\* The remote call of attempt n of invocation c answered and the thunk
\* threw its own error on the answer.
ThunkFailure(c, n) ==
  /\ n \in 1..Len(remote[c])
  /\ ~remote[c][n].failed
  /\ ~outcomes[c][n].ok

(***************************************************************************)
(* C12: a semantic failure is never retried.  When the remote call of      *)
(* attempt n answers generateStyledImage without an image, or analyzeTrend *)
(* with unparseable text, the thunk throws, attempt n stays the last call  *)
(* of the thunk and the throw that follows it stays the last event: no     *)
(* onRetry, no sleep and no further call come after it.                    *)
(***************************************************************************)
C12_SemanticFailureNotRetried ==
  \A c \in Calls : \A n \in 1..Len(remote[c]) :
    (NoUsableOutput(c, n) \/ ThunkFailure(c, n)) =>
      /\ ThunkFailure(c, n)
      /\ Len(remote[c]) = n
      /\ Len(outcomes[c]) = n
      /\ EventArgs(c, "apiCall") = [i \in 1..n |-> i]
      /\ events[c][Len(events[c])] = <<"throw", n>>
      /\ events[c][Len(events[c]) - 1] = <<"apiCall", n>>
      /\ Len(EventArgs(c, "sleep")) = n - 1
      /\ \A i \in 1..Len(events[c]) : events[c][i] # <<"onRetry", n>>

C12_Witness ==
  \E c \in Calls :
    /\ op[c] = "generate"
    /\ hasOnRetry[c]
    /\ Len(remote[c]) = 2
    /\ remote[c][1] = RemoteFailed(RemoteError(Msg503))
    /\ remote[c][2] = RemoteAnswered(Response(<< TextPart >>, FALSE, << >>))
    /\ pc[c] = "rejected"
    /\ EventArgs(c, "onRetry") = <<1>>

(***************************************************************************)
(* C13: every rejection of generateStyledImage and analyzeTrend that comes *)
(* from a failure raised inside the retried thunk (a failure of the remote *)
(* call or an error thrown by the thunk itself) is an InvalidInputError, a *)
(* RateLimitError, a ServerError or a plain ApiError, so the caller's      *)
(* `instanceof ApiError` test recognises it.                               *)
(***************************************************************************)
C13_RejectionsAreApiErrors ==
  \A c \in Calls :
    settled[c].state = "rejected" =>
      /\ Len(outcomes[c]) >= 1
      /\ ~outcomes[c][Len(outcomes[c])].ok
      /\ settled[c].error.cls
           \in {"ApiError", "RateLimitError", "InvalidInputError",
                "ServerError"}
      /\ settled[c].error.hasMessage
      /\ instanceofApiError(settled[c].error)

C13_Witness ==
  \E c \in Calls :
    /\ op[c] = "generate"
    /\ Len(remote[c]) = 3
    /\ ThunkFailure(c, 3)
    /\ settled[c].state = "rejected"
    /\ settled[c].error.cls = "ApiError"

\* The positions of the parts of response r that carry inline image data.
ImagePositions(r) == { i \in 1..Len(r.parts) : r.parts[i].inlineData }

(***************************************************************************)
(* C14: generateStyledImage resolves with the serialized {mimeType, data}  *)
(* of an image part whenever the response of the remote call contains at   *)
(* least one part with inline image data, at whatever position; its thunk  *)
(* throws the "Could not generate styled image" error only on a response   *)
(* without any image part.                                                 *)
(***************************************************************************)
C14_AnyImagePartResolves ==
  \A c \in Calls : \A n \in 1..Len(remote[c]) :
    (op[c] = "generate" /\ ~remote[c][n].failed) =>
      LET r == remote[c][n].response IN
        /\ ImagePositions(r) # {} =>
             /\ settled[c].state = "fulfilled"
             /\ \E i \in ImagePositions(r) :
                  settled[c].value =
                    [t |-> "string", fields |-> {},
                     s |-> JSONstringify(r.parts[i].mimeType, r.parts[i].data)]
        /\ ~outcomes[c][n].ok => ImagePositions(r) = {}

\* Value v matches the declared response schema: an object with an integer
\* score in 0..100 and a string analysis.
MatchesSchema(v) ==
  /\ v.t = "object"
  /\ \E f \in v.fields : f[1] = "score" /\ f[2] = "number" /\ f[3] \in 0..100
  /\ \E f \in v.fields : f[1] = "analysis" /\ f[2] = "string"

(***************************************************************************)
(* C15: analyzeTrend resolves only with a value that matches the declared  *)
(* schema (an integer score in 0..100 and a string analysis); an answer of *)
(* the remote call whose text fails to parse, or parses to a value that    *)
(* does not match the schema, makes it reject with the "Failed to analyze  *)
(* trend" error.                                                           *)
(***************************************************************************)
C15_ResolvesOnlyWithSchemaValue ==
  \A c \in Calls :
    op[c] = "analyze" =>
      /\ settled[c].state = "fulfilled" => MatchesSchema(settled[c].value)
      /\ \A n \in 1..Len(remote[c]) :
           ( /\ ~remote[c][n].failed
             /\ \/ ~remote[c][n].response.hasText
                \/ ~JSONparse(trim(remote[c][n].response.text)).ok
                \/ ~MatchesSchema(
                       JSONparse(trim(remote[c][n].response.text)).value) )
             => /\ settled[c].state = "rejected"
                /\ settled[c].error.message = BadFormatMessage

\* '{"mimeType":"image/png","data":"abc123"}'
ExpectedJsonPngAbc ==
  << "{", "\"", "m", "i", "m", "e", "T", "y", "p", "e", "\"", ":", "\"",
     "i", "m", "a", "g", "e", "/", "p", "n", "g", "\"", ",", "\"", "d",
     "a", "t", "a", "\"", ":", "\"", "a", "b", "c", "1", "2", "3", "\"",
     "}" >>

(***************************************************************************)
(* C16: when the remote call fails twice with "503 Service Unavailable"    *)
(* and then answers with the inline image {mimeType: "image/png", data:    *)
(* "abc123"}, generateStyledImage resolves with the JSON text of that      *)
(* payload after exactly 3 calls of the thunk, and onRetry (when passed)   *)
(* has been called exactly twice, with 1 and then 2.                       *)
(***************************************************************************)
C16_TwoFailuresThenImage ==
  \A c \in Calls :
    ( /\ op[c] = "generate"
      /\ Len(remote[c]) = 3
      /\ remote[c][1] = RemoteFailed(RemoteError(Msg503))
      /\ remote[c][2] = RemoteFailed(RemoteError(Msg503))
      /\ ~remote[c][3].failed
      /\ Len(remote[c][3].response.parts) >= 1
      /\ remote[c][3].response.parts[1] = ImagePart(MimePng, DataAbc) ) =>
        /\ settled[c] =
             [state |-> "fulfilled",
              value |-> [t |-> "string", s |-> ExpectedJsonPngAbc,
                         fields |-> {}],
              error |-> NoError]
        /\ EventArgs(c, "apiCall") = <<1, 2, 3>>
        /\ EventArgs(c, "sleep") = <<1000, 2000>>
        /\ EventArgs(c, "onRetry") = (IF hasOnRetry[c] THEN <<1, 2>> ELSE << >>)
        /\ events[c][Len(events[c])] = <<"return", 3>>

C16_Witness ==
  \E c \in Calls :
    /\ op[c] = "generate"
    /\ hasOnRetry[c]
    /\ remote[c] = << RemoteFailed(RemoteError(Msg503)),
                      RemoteFailed(RemoteError(Msg503)),
                      RemoteAnswered(Response(<< ImagePart(MimePng, DataAbc) >>,
                                              FALSE, << >>)) >>
    /\ pc[c] = "fulfilled"
    /\ EventArgs(c, "onRetry") = <<1, 2>>

\* One invocation run alone: what callGeminiWithRetry of operation `kind`
\* has settled with and the events it has produced from the call of
\* attempt n on, when the remote calls of attempts n, n+1, ... do what the
\* sequence rs says (an attempt beyond rs is still awaiting its answer).
RECURSIVE AloneFrom(_, _, _, _)
AloneFrom(kind, cb, rs, n) ==
  IF rs = << >>
    THEN [settled |-> [state |-> "pending", value |-> Undefined,
                       error |-> NoError],
          events |-> << <<"apiCall", n>> >>, used |-> 0]
    ELSE
      LET o == IF Head(rs).failed THEN Throws(Head(rs).error)
                                  ELSE apiCall(kind, Head(rs).response)
      IN
        IF o.ok
          THEN [settled |-> [state |-> "fulfilled", value |-> o.value,
                             error |-> NoError],
                events |-> << <<"apiCall", n>>, <<"return", n>> >>,
                used |-> 1]
        ELSE IF CatchBranch(o.error, n) = "retry"
          THEN LET rest == AloneFrom(kind, cb, Tail(rs), n + 1) IN
                 [settled |-> rest.settled,
                  events |-> << <<"apiCall", n>> >>
                               \o (IF cb THEN << <<"onRetry", n>> >> ELSE << >>)
                               \o << <<"sleep", 1000 * (2 ^ (n - 1))>>,
                                     <<"wake", 1000 * (2 ^ (n - 1))>> >>
                               \o rest.events,
                  used |-> 1 + rest.used]
        ELSE [settled |-> [state |-> "rejected", value |-> Undefined,
                           error |-> CatchThrows(o.error, n)],
              events |-> << <<"apiCall", n>>, <<"throw", n>> >>,
              used |-> 1]

(***************************************************************************)
(* C17: invocations of callGeminiWithRetry that are in flight at the same  *)
(* time, interleaved in any order at their awaits, share no state: each    *)
(* calls its thunk at most 3 times, and in every state what an invocation  *)
(* has settled with and the events it has produced are those of the same   *)
(* invocation run alone against its own sequence of remote outcomes (while *)
(* its backoff sleep is pending, the events up to the start of the sleep). *)
(***************************************************************************)
C17_ConcurrentInvocationsIndependent ==
  \A c \in Calls :
    IF pc[c] = "idle"
      THEN events[c] = << >> /\ settled[c].state = "pending"
      ELSE
        LET a == AloneFrom(op[c], hasOnRetry[c], remote[c], 1) IN
          /\ Len(EventArgs(c, "apiCall")) <= 3
          /\ a.used = Len(remote[c])
          /\ settled[c] = a.settled
          /\ IF pc[c] = "sleeping"
               THEN events[c] = SubSeq(a.events, 1, Len(a.events) - 2)
               ELSE events[c] = a.events

C17_Witness ==
  /\ pc[1] = "sleeping"
  /\ attempt[1] = 1
  /\ pc[2] = "awaiting"
  /\ attempt[2] = 3
  /\ op[1] # op[2]

\* The calls of the thunk of invocation c that have not settled yet.
InFlight(c) == Len(EventArgs(c, "apiCall")) - Len(outcomes[c])

\* The backoff sleeps of invocation c that have not completed yet.
SleepsPending(c) == Len(EventArgs(c, "sleep")) - Len(EventArgs(c, "wake"))

(***************************************************************************)
(* C18: within one invocation the attempts run strictly one after the      *)
(* other: at most one call of the thunk is in flight at any time, the call *)
(* of attempt n+1 is made only after the call of attempt n has failed, and *)
(* no call is in flight while a backoff sleep is pending.                  *)
(***************************************************************************)
C18_AttemptsSequential ==
  \A c \in Calls :
    /\ InFlight(c) \in {0, 1}
    /\ SleepsPending(c) \in {0, 1}
    /\ SleepsPending(c) = 1 => InFlight(c) = 0
    /\ EventArgs(c, "apiCall") = [i \in 1..Len(EventArgs(c, "apiCall")) |-> i]
    /\ \A n \in 1..Len(EventArgs(c, "apiCall")) - 1 :
         /\ Len(outcomes[c]) >= n
         /\ ~outcomes[c][n].ok
    /\ \A i \in 1..Len(events[c]) :
         events[c][i][1] = "apiCall" =>
           /\ i < Len(events[c]) =>
                events[c][i + 1][1] \in {"return", "throw", "onRetry", "sleep"}
           /\ i > 1 => events[c][i - 1][1] = "wake"

C18_Witness ==
  \E c \in Calls :
    /\ pc[c] = "sleeping"
    /\ Len(outcomes[c]) = 2
    /\ SleepsPending(c) = 1
    /\ InFlight(c) = 0

(***************************************************************************)
(* C19: provided every remote call eventually settles and every backoff    *)
(* timer eventually fires, an invocation that has been started eventually  *)
(* settles with a result or an error, and once settled it keeps what it    *)
(* settled with: it never stays pending and never settles twice.           *)
(***************************************************************************)
C19_EventuallySettlesOnce ==
  /\ \A c \in Calls :
       (pc[c] \in {"awaiting", "sleeping"})
          ~> (settled[c].state \in {"fulfilled", "rejected"})
  /\ [][\A c \in Calls :
          settled[c].state # "pending" =>
            /\ settled'[c] = settled[c]
            /\ events'[c] = events[c]]_vars

C19_Witness ==
  \E c \in Calls :
    /\ settled[c].state = "rejected"
    /\ EventArgs(c, "wake") = <<1000, 2000>>
    /\ Len(outcomes[c]) = 3

\* What the caller is handed when the final attempt has outcome o: its
\* value, or the error of the taxonomy class of its message.
SurfacedFrom(o) ==
  IF o.ok
    THEN [state |-> "fulfilled", value |-> o.value, error |-> NoError]
    ELSE [state |-> "rejected", value |-> Undefined,
          error |->
            IF FailsWithMarker(o, InvalidInputMarkers)
              THEN [cls |-> "InvalidInputError", hasMessage |-> TRUE,
                    message |-> InvalidInputMessage]
            ELSE IF FailsWithMarker(o, RateLimitMarkers)
              THEN [cls |-> "RateLimitError", hasMessage |-> TRUE,
                    message |-> RateLimitDefaultMessage]
            ELSE IF FailsWithMarker(o, ServerErrorMarkers)
              THEN [cls |-> "ServerError", hasMessage |-> TRUE,
                    message |-> ServerDefaultMessage]
            ELSE [cls |-> "ApiError", hasMessage |-> TRUE,
                  message |-> IF o.error.hasMessage THEN o.error.message
                              ELSE << >>]]

(***************************************************************************)
(* C20: when an invocation settles, it has called the operation once more  *)
(* than it has retried: one more time than it slept, and one more time     *)
(* than it called onRetry when a callback was passed.  Every attempt but   *)
(* the last failed with a retriable failure that the caller is not handed; *)
(* the invocation stays pending until the final attempt, and what it       *)
(* settles with is decided by the outcome of the final attempt alone.      *)
(***************************************************************************)
C20_CallsAreRetriesPlusOne ==
  \A c \in Calls :
    /\ IsSettled(c) =>
         LET n == Len(outcomes[c]) IN
           /\ n >= 1
           /\ Len(EventArgs(c, "apiCall")) = n
           /\ Len(EventArgs(c, "apiCall")) = Len(EventArgs(c, "sleep")) + 1
           /\ hasOnRetry[c] =>
                Len(EventArgs(c, "apiCall"))
                  = Len(EventArgs(c, "onRetry")) + 1
           /\ ~hasOnRetry[c] => EventArgs(c, "onRetry") = << >>
           /\ \A i \in 1..(n - 1) : RetriableFailure(outcomes[c][i])
           /\ settled[c] = SurfacedFrom(outcomes[c][n])
    /\ ~IsSettled(c) => settled[c].state = "pending"

\* Two differing retriable failures were suppressed and the third attempt's
\* failure, of another class, is the one handed to the caller.
C20_Witness ==
  \E c \in Calls :
    /\ IsSettled(c)
    /\ hasOnRetry[c]
    /\ EventArgs(c, "apiCall") = <<1, 2, 3>>
    /\ EventArgs(c, "onRetry") = <<1, 2>>
    /\ FailsWithMarker(outcomes[c][1], RateLimitMarkers)
    /\ FailsWithMarker(outcomes[c][2], ServerErrorMarkers)
    /\ UnclassifiedFailure(outcomes[c][3])
    /\ settled[c].error.cls = "ApiError"

(***************************************************************************)
(* C26: the throw placed after the retry loop of callGeminiWithRetry is    *)
(* never executed.  An invocation sleeps only after an attempt below 3, so *)
(* the iteration it continues to exists; the loop variable never exceeds   *)
(* 3; and a settled invocation ended inside the loop, its last event being *)
(* the return of the try block or a throw of the catch block.              *)
(***************************************************************************)
C26_FallbackThrowUnreachable ==
  \A c \in Calls :
    /\ EventArgs(c, "throwAfterLoop") = << >>
    /\ attempt[c] <= 3
    /\ pc[c] = "sleeping" => attempt[c] < 3
    /\ IsSettled(c) =>
         /\ events[c][Len(events[c])][1] \in {"return", "throw"}
         /\ events[c][Len(events[c])][2] = Len(outcomes[c])

\* Both backoff sleeps were taken and the third attempt threw in the catch
\* block.
C26_Witness ==
  \E c \in Calls :
    /\ pc[c] = "rejected"
    /\ EventArgs(c, "sleep") = <<1000, 2000>>
    /\ events[c][Len(events[c])] = <<"throw", 3>>

C25_SelectionConsistent ==
  /\ [] ( /\ selectedClothingId.isNull <=> selectedClothing = Null
          /\ ~selectedClothingId.isNull =>
               \E i \in 1..Len(items) :
                 /\ items[i].id = selectedClothingId.id
                 /\ items[i].imageData = selectedClothing )
  /\ [][ ( /\ Len(items') < Len(items)
           /\ ~selectedClothingId.isNull
           /\ \E i \in 1..Len(items') :
                items'[i].id = selectedClothingId.id ) =>
             /\ selectedClothingId' = selectedClothingId
             /\ selectedClothing' = selectedClothing ]_vars

\* An added item is selected and an item of the initial library was
\* removed after the selection.
C25_Witness ==
  /\ ~selectedClothingId.isNull
  /\ selectedClothingId.id > Epoch
  /\ now = Epoch + 2
  /\ Len(items) = 2
  /\ items[1].id = selectedClothingId.id

=============================================================================
